---- MODULE Spec2Model ----
(***************************************************************************)
(* Sale-creation endpoint (POST /api/sales) of sika-ventures-admin and the *)
(* persistence layer it drives (Product, Stock, Sale, SaleItem, User).     *)
(*                                                                         *)
(* Units.  A JavaScript number that carries money is held as an integer    *)
(* count of thousandths of a currency unit ("mills"), so that toCents has  *)
(* a third decimal to round.  A JavaScript number that carries a quantity  *)
(* is held as an integer count of thousandths of a unit.  A DECIMAL(_,2)   *)
(* column is held as an integer count of hundredths (cents for money):     *)
(* PostgreSQL rounds what is assigned to it, halves away from zero.        *)
(***************************************************************************)
EXTENDS Integers, Sequences, FiniteSets, TLC

(***************************************************************************)
(* Bounds of the model.                                                    *)
(***************************************************************************)
NumReqs == 2
MaxClock == 1

Reqs == 1..NumReqs

(***************************************************************************)
(* JavaScript values as they arrive in the JSON body.                      *)
(***************************************************************************)
Undefined == [t |-> "undefined"]
Null == [t |-> "null"]
NaN == [t |-> "NaN"]
Infinity == [t |-> "Infinity"]
Num(n) == [t |-> "number", v |-> n]
Str(s) == [t |-> "string", v |-> s]
Arr(s) == [t |-> "array", v |-> s]
Obj(productId, quantity, price) ==
    [t |-> "object", productId |-> productId, quantity |-> quantity, price |-> price]

\* Number(x) for the values above.  A string is a sequence of characters; the
\* only numeric string of the model is "Infinity", every other one is NaN.
ToNumber(x) ==
    CASE x.t = "number" -> x
      [] x.t = "Infinity" -> Infinity
      [] x.t = "null" -> Num(0)
      [] x.t = "string" ->
            IF x.v = <<"I", "n", "f", "i", "n", "i", "t", "y">> THEN Infinity
            ELSE IF x.v = <<>> THEN Num(0) ELSE NaN
      [] OTHER -> NaN

IsFinite(x) == x.t = "number"
IsNaN(x) == x.t = "NaN"

\* !x : undefined, null, NaN, 0 and "" are falsy.
Falsy(x) ==
    \/ x.t \in {"undefined", "null", "NaN"}
    \/ x.t = "number" /\ x.v = 0
    \/ x.t = "string" /\ x.v = <<>>

\* a < b and a > b on numbers that may be NaN or Infinity (never -Infinity here).
JsLess(a, b) ==
    CASE a.t = "NaN" \/ b.t = "NaN" -> FALSE
      [] a.t = "Infinity" -> FALSE
      [] b.t = "Infinity" -> TRUE
      [] OTHER -> a.v < b.v
JsGreater(a, b) == JsLess(b, a)

(***************************************************************************)
(* Monetary normalizer.                                                    *)
(***************************************************************************)
\* Math.round(value * 100): floor(x + 0.5).  value is in mills.
toCents(value) ==
    IF value.t = "number" THEN Num((value.v + 5) \div 10) ELSE value

\* Mutant of centsToAmount: the division by 100 drops the fraction.
centsToAmountWhole(cents) == (cents \div 100) * 1000

\* cents / 100, as a number in mills.
centsToAmount(cents) == cents * 10

\* A number (in thousandths) assigned to a DECIMAL(_,2) column (in hundredths):
\* rounded to two decimals, halves away from zero.
ToDecimal(thousandths) ==
    IF thousandths >= 0 THEN (thousandths + 5) \div 10
    ELSE -((5 - thousandths) \div 10)

\* Number(decimal) of a DECIMAL(_,2) column, in thousandths.
DecimalToNumber(hundredths) == Num(hundredths * 10)

(***************************************************************************)
(* Strings as sequences of characters.                                     *)
(***************************************************************************)
Lower == <<"a", "c", "d", "h", "m", "o", "r", "s">>
Upper == <<"A", "C", "D", "H", "M", "O", "R", "S">>

UpperChar(c) ==
    IF \E i \in 1..Len(Lower) : Lower[i] = c
    THEN Upper[CHOOSE i \in 1..Len(Lower) : Lower[i] = c]
    ELSE c

\* String(x).toUpperCase()
toUpperCase(s) == [i \in 1..Len(s) |-> UpperChar(s[i])]

RECURSIVE TrimStart(_)
TrimStart(s) == IF s # <<>> /\ Head(s) = " " THEN TrimStart(Tail(s)) ELSE s

RECURSIVE TrimEnd(_)
TrimEnd(s) ==
    IF s # <<>> /\ s[Len(s)] = " " THEN TrimEnd(SubSeq(s, 1, Len(s) - 1)) ELSE s

\* s.trim()
trim(s) == TrimEnd(TrimStart(s))

DigitChars == <<"0", "1", "2", "3", "4", "5", "6", "7", "8", "9">>

RECURSIVE NatToStr(_)
NatToStr(n) ==
    IF n < 10 THEN <<DigitChars[n + 1]>>
    ELSE NatToStr(n \div 10) \o <<DigitChars[(n % 10) + 1]>>

(***************************************************************************)
(* Responses.  A message is its template and the values spliced into it:   *)
(* at = the 1-based item position, ids = the product ids or names, qty =   *)
(* the available quantity.                                                 *)
(***************************************************************************)
Msg(text, at, ids, qty) == [text |-> text, at |-> at, ids |-> ids, qty |-> qty]
NoMsg == Msg("", 0, <<>>, 0)

\* NextResponse.json({ error }, { status }); cause is what console.error logged
\* (the empty string when the handler answered without an exception).
ErrorResponse(status, error, cause) ==
    [status |-> status, error |-> error, cause |-> cause, sale |-> <<>>]
NoResponse == [status |-> 0, error |-> NoMsg, cause |-> "", sale |-> <<>>]

(***************************************************************************)
(* Request validation: POST, from the destructuring of the body to the end *)
(* of the item loop.                                                       *)
(***************************************************************************)
\* The members of the Prisma enum PaymentMethod.
PaymentMethod == {<<"C", "A", "S", "H">>, <<"C", "A", "R", "D">>, <<"M", "O", "M", "O">>}
paymentMethodSet == PaymentMethod

RECURSIVE JsString(_)
\* String(x): a string is itself, an array is its elements' strings joined by
\* commas (null and undefined elements give the empty string), any other value
\* of the model is the one word that names it.
JsString(x) ==
    LET RECURSIVE Join(_)
        Join(i) ==
            LET e == x.v[i]
                piece == IF e.t \in {"undefined", "null"} THEN <<>> ELSE JsString(e)
            IN  IF i = 1 THEN piece ELSE Join(i - 1) \o <<",">> \o piece
    IN  CASE x.t = "string" -> x.v
          [] x.t = "array" -> IF x.v = <<>> THEN <<>> ELSE Join(Len(x.v))
          [] OTHER -> <<x.t>>

\* String(paymentMethod).toUpperCase()
normalizedPaymentMethod(body) == toUpperCase(JsString(body.paymentMethod))

\* const { discount = 0 } = body; Number(discount ?? 0)
parsedDiscount(body) ==
    IF body.discount.t \in {"undefined", "null"} THEN Num(0) ELSE ToNumber(body.discount)

\* The check of one item of the loop: the rejection message, or NoMsg.
ItemError(item, index) ==
    IF item.t # "object"
    THEN Msg("Item at position is invalid.", index + 1, <<>>, 0)
    ELSE IF Falsy(item.productId)
    THEN Msg("Item is missing productId.", index + 1, <<>>, 0)
    ELSE IF ~IsFinite(ToNumber(item.quantity)) \/ ~JsGreater(ToNumber(item.quantity), Num(0))
    THEN Msg("Item quantity must be a positive number.", index + 1, <<>>, 0)
    ELSE IF /\ item.price.t # "undefined"
            /\ (~IsFinite(ToNumber(item.price)) \/ JsLess(ToNumber(item.price), Num(0)))
    THEN Msg("Item price must be a positive number.", index + 1, <<>>, 0)
    ELSE NoMsg

\* sanitizedItems.push({ productId, quantity, priceOverride })
SanitizedItem(item) ==
    [productId |-> item.productId.v,
     quantity |-> ToNumber(item.quantity).v,
     priceOverride |-> IF item.price.t = "undefined" THEN Undefined ELSE ToNumber(item.price)]

\* The first rejection of the body in the order the handler checks, or NoMsg.
ValidationError(body) ==
    IF Falsy(body.userId)
    THEN Msg("userId is required.", 0, <<>>, 0)
    ELSE IF Falsy(body.paymentMethod) \/ normalizedPaymentMethod(body) \notin paymentMethodSet
    THEN Msg("paymentMethod is invalid.", 0, <<>>, 0)
    ELSE IF body.items.t # "array" \/ Len(body.items.v) = 0
    THEN Msg("At least one sale item is required.", 0, <<>>, 0)
    ELSE IF IsNaN(parsedDiscount(body)) \/ JsLess(parsedDiscount(body), Num(0))
    THEN Msg("discount must be a positive number.", 0, <<>>, 0)
    ELSE LET items == body.items.v
             bad == {i \in 1..Len(items) : ItemError(items[i], i - 1) # NoMsg}
         IN  IF bad = {} THEN NoMsg
             ELSE LET first == CHOOSE i \in bad : \A j \in bad : i <= j
                  IN  ItemError(items[first], first - 1)

sanitizedItems(body) == [i \in 1..Len(body.items.v) |-> SanitizedItem(body.items.v[i])]

(***************************************************************************)
(* The persistence layer.  Product and User rows are fixed (catalog and    *)
(* user management are other endpoints); Stock and Sale rows are the       *)
(* state.                                                                  *)
(***************************************************************************)
P1 == <<"P", "1">>
P2 == <<"P", "2">>
P3 == <<"P", "3">>
P9 == <<"P", "9">>
U1 == <<"u", "1">>
U9 == <<"u", "9">>

\* Product rows: price is the DECIMAL column in cents.  P2 has the price 0 the
\* inventory seed gives every product; P3 has no Stock row; P9 is no product.
Product ==
    {[id |-> P1, name |-> <<"R", "i", "c", "e">>, sku |-> <<"R">>, price |-> 999],
     [id |-> P2, name |-> <<"S", "a", "l", "t">>, sku |-> <<"S">>, price |-> 0],
     [id |-> P3, name |-> <<"O", "i", "l">>, sku |-> <<>>, price |-> 250]}

ProductIds == {p.id : p \in Product}
ProductRow(id) == CHOOSE p \in Product : p.id = id

User == {[id |-> U1, fullName |-> <<"A", "m", "a">>, username |-> <<"a", "m", "a">>]}
UserIds == {u.id : u \in User}

\* The Stock tables the model starts from: the DECIMAL(10,2) quantity by
\* productId, >= 0.
InitialStock ==
    {[p \in {P1, P2} |-> IF p = P1 THEN q ELSE 100] : q \in {200, 500}}

VARIABLES
    stock0,           \* the Stock rows before the first request
    stock,            \* committed Stock rows: productId -> quantity
    sales,            \* committed Sale rows, each with its SaleItem rows
    now,              \* Date.now()
    pc,               \* where each request's handler stands
    body,             \* the parsed JSON body of each request
    products,         \* result of prisma.product.findMany, per request
    itemsPayload,     \* per request
    subtotalInCents,  \* per request
    discountInCents,  \* per request
    idx,              \* position of the loop the request's transaction is in
    txSale,           \* the Sale row the request's open transaction inserted
    txWrites,         \* the Stock decrements the open transaction issued
    resp,             \* the response of each request
    calls,            \* prisma calls issued so far, per request
    transactions,     \* sales report page: how many loaded transactions each day has
    startDate,        \* sales report page: useState(''), '' is NoDate
    endDate,          \* sales report page: useState('')
    currentPage,      \* sales report page: useState(1)
    resetDeps,        \* dependencies the page-reset effect last ran with
    clampDeps         \* dependencies the page-clamp effect last ran with

\* The state of the POST handler and of the database.
handlerVars == <<stock0, stock, sales, now, pc, body, products, itemsPayload, subtotalInCents,
                 discountInCents, idx, txSale, txWrites, resp, calls>>

\* The state of the sales report page, which the handler never touches.
pageVars == <<transactions, startDate, endDate, currentPage, resetDeps, clampDeps>>

vars == <<handlerVars, pageVars>>

\* Dates are 'YYYY-MM-DD' strings, compared as strings: day numbers keep their
\* order, and NoDate is the empty string of an unset filter.
MaxDay == 2
Days == 1..MaxDay
NoDate == 0

TxPcs == {"recheck", "create", "update", "commit"}

NoBody == [receiptNumber |-> Undefined, userId |-> Undefined, paymentMethod |-> Undefined,
           items |-> Undefined, discount |-> Undefined]

Init ==
    /\ stock \in InitialStock
    /\ stock0 = stock
    /\ sales = {}
    /\ now = 0
    /\ pc = [r \in Reqs |-> "idle"]
    /\ body = [r \in Reqs |-> NoBody]
    /\ products = [r \in Reqs |-> <<>>]
    /\ itemsPayload = [r \in Reqs |-> <<>>]
    /\ subtotalInCents = [r \in Reqs |-> 0]
    /\ discountInCents = [r \in Reqs |-> 0]
    /\ idx = [r \in Reqs |-> 0]
    /\ txSale = [r \in Reqs |-> <<>>]
    /\ txWrites = [r \in Reqs |-> <<>>]
    /\ resp = [r \in Reqs |-> NoResponse]
    /\ calls = [r \in Reqs |-> [reads |-> 0, writes |-> 0, tx |-> 0]]
    \* the page before its first render commits: no data, no filter, page 1
    /\ transactions = [d \in Days |-> 0]
    /\ startDate = NoDate
    /\ endDate = NoDate
    /\ currentPage = 1
    /\ resetDeps = <<>>
    /\ clampDeps = <<>>

\* Mutant of Respond: the handler ends without a response.
RespondSilently(r, response) ==
    /\ resp' = resp
    /\ pc' = [pc EXCEPT ![r] = "done"]

\* return NextResponse.json(...): the handler of request r ends.
Respond(r, response) ==
    /\ resp' = [resp EXCEPT ![r] = response]
    /\ pc' = [pc EXCEPT ![r] = "done"]

\* Mutant of Receive: the products are fetched before the body is validated.
ReceiveFetchFirst(r, b) ==
    /\ pc[r] = "idle"
    /\ body' = [body EXCEPT ![r] = b]
    /\ calls' = [calls EXCEPT ![r].reads = @ + 1]
    /\ IF ValidationError(b) # NoMsg
       THEN Respond(r, ErrorResponse(400, ValidationError(b), ""))
       ELSE /\ pc' = [pc EXCEPT ![r] = "lookup"]
            /\ resp' = resp
    /\ UNCHANGED <<pageVars, stock0, stock, sales, now, products, itemsPayload, subtotalInCents,
                   discountInCents, idx, txSale, txWrites>>

(***************************************************************************)
(* POST, lines 188-235: the body is parsed and validated.                  *)
(***************************************************************************)
Receive(r, b) ==
    /\ pc[r] = "idle"
    /\ body' = [body EXCEPT ![r] = b]
    /\ IF ValidationError(b) # NoMsg
       THEN Respond(r, ErrorResponse(400, ValidationError(b), ""))
       ELSE /\ pc' = [pc EXCEPT ![r] = "lookup"]
            /\ resp' = resp
    /\ UNCHANGED <<pageVars, stock0, stock, sales, now, products, itemsPayload, subtotalInCents,
                   discountInCents, idx, txSale, txWrites, calls>>

(***************************************************************************)
(* The catch block of POST.  A thrown error is its kind (what the log      *)
(* shows), its message and its Prisma error code.                          *)
(***************************************************************************)
Thrown(kind, message, code) == [kind |-> kind, message |-> message, code |-> code]

\* Mutant of Catch: a duplicate receipt number gets the generic message.
CatchGeneric(error) ==
    IF error.message.text \in {"Insufficient stock for . Available: .",
                               "Product has no stock record."}
    THEN ErrorResponse(400, error.message, error.kind)
    ELSE ErrorResponse(500, Msg("Unable to create sale.", 0, <<>>, 0), error.kind)

Catch(error) ==
    IF error.message.text \in {"Insufficient stock for . Available: .",
                               "Product has no stock record."}
    THEN ErrorResponse(400, error.message, error.kind)
    ELSE IF error.code = "P2002"
    THEN ErrorResponse(500, Msg("Receipt number must be unique.", 0, <<>>, 0), error.kind)
    ELSE ErrorResponse(500, Msg("Unable to create sale.", 0, <<>>, 0), error.kind)

(***************************************************************************)
(* POST, lines 237-299: product lookup, advisory stock check, pricing.     *)
(***************************************************************************)
RECURSIVE Dedup(_, _)
Dedup(s, seen) ==
    IF s = <<>> THEN <<>>
    ELSE IF Head(s) \in seen THEN Dedup(Tail(s), seen)
    ELSE <<Head(s)>> \o Dedup(Tail(s), seen \cup {Head(s)})

\* Mutant of productIds: the ids are not deduplicated.
productIdsNoDedup(items) == [i \in 1..Len(items) |-> items[i].productId]

\* Array.from(new Set(sanitizedItems.map((item) => item.productId)))
productIds(items) == Dedup([i \in 1..Len(items) |-> items[i].productId], {})

\* prisma.product.findMany({ where: { id: { in: ids } }, select: ... }) on the
\* committed rows.
findMany(ids) ==
    LET Exists(id) == id \in ProductIds
        found == SelectSeq(ids, Exists)
    IN  [i \in 1..Len(found) |->
            [id |-> found[i],
             name |-> ProductRow(found[i]).name,
             price |-> ProductRow(found[i]).price,
             stock |-> IF found[i] \in DOMAIN stock
                       THEN [t |-> "object", quantity |-> stock[found[i]]]
                       ELSE Null]]

\* productIds.filter((id) => !products.find((product) => product.id === id))
missing(ids, found) ==
    LET Absent(id) == ~\E i \in 1..Len(found) : found[i].id = id
    IN  SelectSeq(ids, Absent)

\* productMap.get(id)
productMapGet(found, id) == found[CHOOSE i \in 1..Len(found) : found[i].id = id]

\* Mutant of unitPrice: the catalog price is charged whatever the caller sent.
unitPriceCatalog(item, product) == DecimalToNumber(product.price)

\* item.priceOverride ?? Number(product.price)
unitPrice(item, product) ==
    IF item.priceOverride.t = "undefined" THEN DecimalToNumber(product.price)
    ELSE item.priceOverride

\* Math.round(priceInCents * item.quantity), the quantity in thousandths.
lineTotalInCents(priceInCents, quantity) == (priceInCents * quantity + 500) \div 1000

\* Mutant of LineError: a quantity equal to the stock fetched is rejected too.
LineErrorRejectsEqual(item, product) ==
    IF product.stock.t = "null"
    THEN Thrown("NoStockRecord", Msg("Product has no stock record.", 0, <<product.name>>, 0), "")
    ELSE IF item.quantity >= DecimalToNumber(product.stock.quantity).v
    THEN Thrown("InsufficientStock",
                Msg("Insufficient stock for . Available: .", 0, <<product.name>>,
                    DecimalToNumber(product.stock.quantity).v), "")
    ELSE IF ~IsFinite(unitPrice(item, product)) \/ ~JsGreater(unitPrice(item, product), Num(0))
    THEN Thrown("InvalidPrice", Msg("Invalid price for .", 0, <<product.name>>, 0), "")
    ELSE Thrown("", NoMsg, "")

\* What the callback of sanitizedItems.map throws for one item, or "" as kind.
LineError(item, product) ==
    IF product.stock.t = "null"
    THEN Thrown("NoStockRecord", Msg("Product has no stock record.", 0, <<product.name>>, 0), "")
    ELSE IF item.quantity > DecimalToNumber(product.stock.quantity).v
    THEN Thrown("InsufficientStock",
                Msg("Insufficient stock for . Available: .", 0, <<product.name>>,
                    DecimalToNumber(product.stock.quantity).v), "")
    ELSE IF ~IsFinite(unitPrice(item, product)) \/ ~JsGreater(unitPrice(item, product), Num(0))
    THEN Thrown("InvalidPrice", Msg("Invalid price for .", 0, <<product.name>>, 0), "")
    ELSE Thrown("", NoMsg, "")

\* What the callback returns for one item.
PayloadItem(item, product) ==
    LET priceInCents == toCents(unitPrice(item, product)).v
    IN  [productId |-> item.productId,
         quantity |-> item.quantity,
         price |-> centsToAmount(priceInCents),
         total |-> centsToAmount(lineTotalInCents(priceInCents, item.quantity))]

\* The subtotal accumulated by the map: the sum of the lines' lineTotalInCents.
Subtotal(items, found) ==
    LET RECURSIVE Acc(_)
        Acc(i) ==
            IF i = 0 THEN 0
            ELSE Acc(i - 1)
                 + lineTotalInCents(
                       toCents(unitPrice(items[i], productMapGet(found, items[i].productId))).v,
                       items[i].quantity)
    IN  Acc(Len(items))

\* Mutant of LookupOutcome: the discount is not compared with the subtotal.
LookupOutcomeNoDiscountCheck(b, found) ==
    LET items == sanitizedItems(b)
        ids == Dedup([i \in 1..Len(items) |-> items[i].productId], {})
    IN  IF Len(found) # Len(ids)
        THEN ErrorResponse(404, Msg("Products not found: ", 0, missing(ids, found), 0), "")
        ELSE LET bad == {i \in 1..Len(items) :
                            LineError(items[i], productMapGet(found, items[i].productId)).kind # ""}
             IN  IF bad # {}
                 THEN LET first == CHOOSE i \in bad : \A j \in bad : i <= j
                      IN  Catch(LineError(items[first],
                                          productMapGet(found, items[first].productId)))
                 ELSE NoResponse

\* Mutant of LookupOutcome: a discount equal to the subtotal is rejected too.
LookupOutcomeRejectsEqualDiscount(b, found) ==
    LET items == sanitizedItems(b)
        ids == Dedup([i \in 1..Len(items) |-> items[i].productId], {})
    IN  IF Len(found) # Len(ids)
        THEN ErrorResponse(404, Msg("Products not found: ", 0, missing(ids, found), 0), "")
        ELSE LET bad == {i \in 1..Len(items) :
                            LineError(items[i], productMapGet(found, items[i].productId)).kind # ""}
             IN  IF bad # {}
                 THEN LET first == CHOOSE i \in bad : \A j \in bad : i <= j
                      IN  Catch(LineError(items[first],
                                          productMapGet(found, items[first].productId)))
                 ELSE IF ~JsLess(toCents(parsedDiscount(b)), Num(Subtotal(items, found)))
                 THEN ErrorResponse(400, Msg("Discount cannot exceed subtotal.", 0, <<>>, 0), "")
                 ELSE NoResponse

\* The continuation of the handler after findMany resolved with `found`: the
\* response it ends with, or NoResponse when it goes on to open the transaction.
LookupOutcome(b, found) ==
    LET items == sanitizedItems(b)
        ids == productIds(items)
    IN  IF Len(found) # Len(ids)
        THEN ErrorResponse(404, Msg("Products not found: ", 0, missing(ids, found), 0), "")
        ELSE LET bad == {i \in 1..Len(items) :
                            LineError(items[i], productMapGet(found, items[i].productId)).kind # ""}
             IN  IF bad # {}
                 THEN LET first == CHOOSE i \in bad : \A j \in bad : i <= j
                      IN  Catch(LineError(items[first],
                                          productMapGet(found, items[first].productId)))
                 ELSE IF JsGreater(toCents(parsedDiscount(b)), Num(Subtotal(items, found)))
                 THEN ErrorResponse(400, Msg("Discount cannot exceed subtotal.", 0, <<>>, 0), "")
                 ELSE NoResponse

Lookup(r) ==
    /\ pc[r] = "lookup"
    /\ LET items == sanitizedItems(body[r])
           found == findMany(productIds(items))
           outcome == LookupOutcome(body[r], found)
       IN  /\ products' = [products EXCEPT ![r] = found]
           /\ IF outcome # NoResponse
              THEN /\ Respond(r, outcome)
                   /\ calls' = [calls EXCEPT ![r].reads = @ + 1]
                   /\ UNCHANGED <<itemsPayload, subtotalInCents, discountInCents, idx>>
              ELSE /\ itemsPayload' = [itemsPayload EXCEPT ![r] =
                          [i \in 1..Len(items) |->
                              PayloadItem(items[i], productMapGet(found, items[i].productId))]]
                   /\ subtotalInCents' = [subtotalInCents EXCEPT ![r] = Subtotal(items, found)]
                   /\ discountInCents' = [discountInCents EXCEPT ![r] =
                                             toCents(parsedDiscount(body[r])).v]
                   \* prisma.$transaction(...) is called: the transaction opens
                   /\ pc' = [pc EXCEPT ![r] = "recheck"]
                   /\ idx' = [idx EXCEPT ![r] = 1]
                   /\ calls' = [calls EXCEPT ![r].reads = @ + 1, ![r].tx = @ + 1]
                   /\ resp' = resp
    /\ UNCHANGED <<pageVars, stock0, stock, sales, now, body, txSale, txWrites>>

(***************************************************************************)
(* POST, lines 301-342: the interactive transaction.  The database is      *)
(* PostgreSQL at its default isolation level (the call passes no           *)
(* isolationLevel): a statement reads the rows committed when it runs, the *)
(* transaction's own writes stay invisible to others until COMMIT, an      *)
(* UPDATE locks its row until the transaction ends, and an INSERT of a key *)
(* that an open transaction inserted waits for that transaction.           *)
(***************************************************************************)
RECURSIVE Decrement(_, _, _)
\* The quantity of the Stock row of p after the UPDATE statements `writes`, each
\* SET quantity = quantity - $1 on the DECIMAL(10,2) column.
Decrement(quantity, writes, p) ==
    IF writes = <<>> THEN quantity
    ELSE Decrement(IF Head(writes).productId = p
                   THEN ToDecimal(DecimalToNumber(quantity).v - Head(writes).quantity)
                   ELSE quantity,
                   Tail(writes), p)

Locked(r, p) == \E i \in 1..Len(txWrites[r]) : txWrites[r][i].productId = p

\* tx.stock.findUnique({ where: { productId } }) inside the transaction of r:
\* the committed row with r's own writes applied, or Null.
txFindUnique(r, p) ==
    IF p \in DOMAIN stock
    THEN [t |-> "object", quantity |-> Decrement(stock[p], txWrites[r], p)]
    ELSE Null

\* The transaction of r is rolled back and the error reaches the catch block.
Rollback(r, error) ==
    /\ txSale' = [txSale EXCEPT ![r] = <<>>]
    /\ txWrites' = [txWrites EXCEPT ![r] = <<>>]
    /\ idx' = [idx EXCEPT ![r] = 0]
    /\ Respond(r, Catch(error))

\* Mutant of TxRecheck: a missing Stock row passes the re-check (`!stock ||` dropped).
TxRecheckIgnoresMissing(r) ==
    /\ pc[r] = "recheck"
    /\ LET item == itemsPayload[r][idx[r]]
           row == txFindUnique(r, item.productId)
       IN  IF row.t # "null" /\ DecimalToNumber(row.quantity).v < item.quantity
           THEN /\ Rollback(r, Thrown("StockChanged",
                                      Msg("Stock levels changed. Please refresh and try again.",
                                          0, <<>>, 0), ""))
           ELSE /\ IF idx[r] = Len(itemsPayload[r])
                   THEN /\ pc' = [pc EXCEPT ![r] = "create"]
                        /\ idx' = [idx EXCEPT ![r] = 0]
                   ELSE /\ pc' = pc
                        /\ idx' = [idx EXCEPT ![r] = @ + 1]
                /\ UNCHANGED <<resp, txSale, txWrites>>
    /\ calls' = [calls EXCEPT ![r].reads = @ + 1]
    /\ UNCHANGED <<pageVars, stock0, stock, sales, now, body, products, itemsPayload,
                   subtotalInCents, discountInCents>>

\* Mutant of TxRecheck: the re-check fails with the error of the pre-check.
TxRecheckInsufficient(r) ==
    /\ pc[r] = "recheck"
    /\ LET item == itemsPayload[r][idx[r]]
           row == txFindUnique(r, item.productId)
       IN  IF row.t = "null" \/ DecimalToNumber(row.quantity).v < item.quantity
           THEN /\ Rollback(r, Thrown("InsufficientStock",
                                      Msg("Insufficient stock for . Available: .", 0,
                                          <<ProductRow(item.productId).name>>,
                                          IF row.t = "null" THEN 0
                                          ELSE DecimalToNumber(row.quantity).v), ""))
           ELSE /\ IF idx[r] = Len(itemsPayload[r])
                   THEN /\ pc' = [pc EXCEPT ![r] = "create"]
                        /\ idx' = [idx EXCEPT ![r] = 0]
                   ELSE /\ pc' = pc
                        /\ idx' = [idx EXCEPT ![r] = @ + 1]
                /\ UNCHANGED <<resp, txSale, txWrites>>
    /\ calls' = [calls EXCEPT ![r].reads = @ + 1]
    /\ UNCHANGED <<pageVars, stock0, stock, sales, now, body, products, itemsPayload,
                   subtotalInCents, discountInCents>>

\* for (const item of itemsPayload) { findUnique; if (!stock || quantity < item.quantity) throw }
TxRecheck(r) ==
    /\ pc[r] = "recheck"
    /\ LET item == itemsPayload[r][idx[r]]
           row == txFindUnique(r, item.productId)
       IN  IF row.t = "null" \/ DecimalToNumber(row.quantity).v < item.quantity
           THEN /\ Rollback(r, Thrown("StockChanged",
                                      Msg("Stock levels changed. Please refresh and try again.",
                                          0, <<>>, 0), ""))
           ELSE /\ IF idx[r] = Len(itemsPayload[r])
                   THEN /\ pc' = [pc EXCEPT ![r] = "create"]
                        /\ idx' = [idx EXCEPT ![r] = 0]
                   ELSE /\ pc' = pc
                        /\ idx' = [idx EXCEPT ![r] = @ + 1]
                /\ UNCHANGED <<resp, txSale, txWrites>>
    /\ calls' = [calls EXCEPT ![r].reads = @ + 1]
    /\ UNCHANGED <<pageVars, stock0, stock, sales, now, body, products, itemsPayload,
                   subtotalInCents, discountInCents>>

\* Mutant of receiptNumberFor: the supplied receipt number is stored untrimmed.
receiptNumberForUntrimmed(b, t) ==
    IF ~Falsy(b.receiptNumber) /\ b.receiptNumber.t = "string" /\ Len(trim(b.receiptNumber.v)) > 0
    THEN b.receiptNumber.v
    ELSE <<"S", "A", "L", "-">> \o NatToStr(t)

\* receiptNumber && typeof receiptNumber === 'string' && receiptNumber.trim().length > 0
\*   ? receiptNumber.trim() : `SAL-${Date.now()}`
receiptNumberFor(b, t) ==
    IF ~Falsy(b.receiptNumber) /\ b.receiptNumber.t = "string" /\ Len(trim(b.receiptNumber.v)) > 0
    THEN trim(b.receiptNumber.v)
    ELSE <<"S", "A", "L", "-">> \o NatToStr(t)

HasReceiptNumber(b) == b.receiptNumber.t = "string" /\ Len(trim(b.receiptNumber.v)) > 0

\* Mutant of NewSale: totalAmount is the subtotal, the discount is not taken off.
NewSaleGrossTotal(r, t) ==
    [id |-> r,
     receiptNumber |-> receiptNumberFor(body[r], t),
     userId |-> body[r].userId.v,
     subtotal |-> ToDecimal(centsToAmount(subtotalInCents[r])),
     discount |-> ToDecimal(centsToAmount(discountInCents[r])),
     totalAmount |-> ToDecimal(centsToAmount(subtotalInCents[r])),
     paymentMethod |-> normalizedPaymentMethod(body[r]),
     createdAt |-> t,
     items |-> [i \in 1..Len(itemsPayload[r]) |->
                   [productId |-> itemsPayload[r][i].productId,
                    quantity |-> ToDecimal(itemsPayload[r][i].quantity),
                    price |-> ToDecimal(itemsPayload[r][i].price),
                    total |-> ToDecimal(itemsPayload[r][i].total)]]]

\* The Sale row with its SaleItem rows that tx.sale.create writes; the id of
\* the row is the request that created it.
NewSale(r, t) ==
    [id |-> r,
     receiptNumber |-> receiptNumberFor(body[r], t),
     userId |-> body[r].userId.v,
     subtotal |-> ToDecimal(centsToAmount(subtotalInCents[r])),
     discount |-> ToDecimal(centsToAmount(discountInCents[r])),
     totalAmount |-> ToDecimal(centsToAmount(subtotalInCents[r] - discountInCents[r])),
     paymentMethod |-> normalizedPaymentMethod(body[r]),
     createdAt |-> t,
     items |-> [i \in 1..Len(itemsPayload[r]) |->
                   [productId |-> itemsPayload[r][i].productId,
                    quantity |-> ToDecimal(itemsPayload[r][i].quantity),
                    price |-> ToDecimal(itemsPayload[r][i].price),
                    total |-> ToDecimal(itemsPayload[r][i].total)]]]

\* tx.sale.create({ data, include }).  Date.now() is read when no receipt number
\* was supplied.
TxCreate(r) ==
    /\ pc[r] = "create"
    /\ \E t \in (IF HasReceiptNumber(body[r]) THEN {now} ELSE now..MaxClock) :
          LET sale == NewSale(r, t)
          IN  /\ now' = t
              \* the unique index on receiptNumber: wait for an open transaction
              \* that inserted the same key
              /\ ~\E o \in Reqs \ {r} :
                     txSale[o] # <<>> /\ txSale[o][1].receiptNumber = sale.receiptNumber
              /\ IF \E s \in sales : s.receiptNumber = sale.receiptNumber
                 THEN /\ Rollback(r, Thrown("DuplicateReceiptNumber",
                                            Msg("Unique constraint failed", 0, <<>>, 0), "P2002"))
                 ELSE IF body[r].userId.t # "string" \/ body[r].userId.v \notin UserIds
                 THEN /\ Rollback(r, Thrown("ForeignKeyViolation",
                                            Msg("Foreign key constraint failed", 0, <<>>, 0),
                                            "P2003"))
                 ELSE /\ txSale' = [txSale EXCEPT ![r] = <<sale>>]
                      /\ pc' = [pc EXCEPT ![r] = "update"]
                      /\ idx' = [idx EXCEPT ![r] = 1]
                      /\ UNCHANGED <<resp, txWrites>>
    /\ calls' = [calls EXCEPT ![r].writes = @ + 1]
    /\ UNCHANGED <<pageVars, stock0, stock, sales, body, products, itemsPayload, subtotalInCents,
                   discountInCents>>

\* Mutant of TxUpdate: the update goes through prisma instead of tx, so it is
\* committed at once, outside the transaction.
TxUpdateOutsideTx(r) ==
    /\ pc[r] = "update"
    /\ LET item == itemsPayload[r][idx[r]]
       IN  stock' = [stock EXCEPT ![item.productId] =
                                  ToDecimal(DecimalToNumber(@).v - item.quantity)]
    /\ IF idx[r] = Len(itemsPayload[r])
       THEN /\ pc' = [pc EXCEPT ![r] = "commit"]
            /\ idx' = [idx EXCEPT ![r] = 0]
       ELSE /\ pc' = pc
            /\ idx' = [idx EXCEPT ![r] = @ + 1]
    /\ calls' = [calls EXCEPT ![r].writes = @ + 1]
    /\ UNCHANGED <<pageVars, stock0, sales, now, body, products, itemsPayload, subtotalInCents,
                   discountInCents, txSale, txWrites, resp>>

\* One tx.stock.update({ where: { productId }, data: { quantity: { decrement } } })
\* of the Promise.all; the statements of one transaction run one at a time, in
\* the order of itemsPayload.
\* An update that finds no row to update is rejected by Prisma (P2025).
TxUpdate(r) ==
    /\ pc[r] = "update"
    /\ LET item == itemsPayload[r][idx[r]]
       IN  IF item.productId \notin DOMAIN stock
           THEN Rollback(r, Thrown("RecordNotFound",
                                   Msg("Record to update not found.", 0, <<>>, 0), "P2025"))
           ELSE /\ ~\E o \in Reqs \ {r} : Locked(o, item.productId)
                /\ txWrites' = [txWrites EXCEPT ![r] =
                                   Append(@, [productId |-> item.productId,
                                              quantity |-> item.quantity])]
                /\ IF idx[r] = Len(itemsPayload[r])
                   THEN /\ pc' = [pc EXCEPT ![r] = "commit"]
                        /\ idx' = [idx EXCEPT ![r] = 0]
                   ELSE /\ pc' = pc
                        /\ idx' = [idx EXCEPT ![r] = @ + 1]
                /\ UNCHANGED <<txSale, resp>>
    /\ calls' = [calls EXCEPT ![r].writes = @ + 1]
    /\ UNCHANGED <<pageVars, stock0, stock, sales, now, body, products, itemsPayload,
                   subtotalInCents, discountInCents>>

\* formatSale(sale): the row with its relations loaded by saleInclude.
formatSale(sale) ==
    [id |-> sale.id,
     receiptNumber |-> sale.receiptNumber,
     userId |-> sale.userId,
     paymentMethod |-> sale.paymentMethod,
     subtotal |-> DecimalToNumber(sale.subtotal).v,
     discount |-> DecimalToNumber(sale.discount).v,
     totalAmount |-> DecimalToNumber(sale.totalAmount).v,
     createdAt |-> sale.createdAt,
     attendant |-> LET a == {u \in User : u.id = sale.userId}
                       u == CHOOSE x \in a : TRUE
                   IN  IF a = {} THEN Null
                       ELSE [t |-> "object", id |-> u.id, fullName |-> Str(u.fullName),
                             username |-> Str(u.username)],
     items |-> [i \in 1..Len(sale.items) |->
                   [productId |-> sale.items[i].productId,
                    quantity |-> DecimalToNumber(sale.items[i].quantity).v,
                    price |-> DecimalToNumber(sale.items[i].price).v,
                    total |-> DecimalToNumber(sale.items[i].total).v,
                    product |-> IF sale.items[i].productId \in ProductIds
                                THEN [t |-> "object", id |-> sale.items[i].productId,
                                      name |-> ProductRow(sale.items[i].productId).name,
                                      sku |-> ProductRow(sale.items[i].productId).sku]
                                ELSE Null]]]

\* Mutant of TxCommit: the commit replaces the Sale rows with the new one.
TxCommitReplaces(r) ==
    /\ pc[r] = "commit"
    /\ stock' = [p \in DOMAIN stock |-> Decrement(stock[p], txWrites[r], p)]
    /\ sales' = {txSale[r][1]}
    /\ txSale' = [txSale EXCEPT ![r] = <<>>]
    /\ txWrites' = [txWrites EXCEPT ![r] = <<>>]
    /\ Respond(r, [status |-> 201, error |-> NoMsg, cause |-> "",
                   sale |-> <<formatSale(txSale[r][1])>>])
    /\ UNCHANGED <<pageVars, stock0, now, body, products, itemsPayload, subtotalInCents,
                   discountInCents, idx, calls>>

\* The callback returned createdSale: COMMIT, then the 201 response.
TxCommit(r) ==
    /\ pc[r] = "commit"
    /\ stock' = [p \in DOMAIN stock |-> Decrement(stock[p], txWrites[r], p)]
    /\ sales' = sales \cup {txSale[r][1]}
    /\ txSale' = [txSale EXCEPT ![r] = <<>>]
    /\ txWrites' = [txWrites EXCEPT ![r] = <<>>]
    /\ Respond(r, [status |-> 201, error |-> NoMsg, cause |-> "",
                   sale |-> <<formatSale(txSale[r][1])>>])
    /\ UNCHANGED <<pageVars, stock0, now, body, products, itemsPayload, subtotalInCents,
                   discountInCents, idx, calls>>

\* Mutant of TxTimeout: after the rollback the handler opens a new transaction.
TxTimeoutRetry(r) ==
    /\ pc[r] \in TxPcs
    /\ calls[r].tx < 3
    /\ txSale' = [txSale EXCEPT ![r] = <<>>]
    /\ txWrites' = [txWrites EXCEPT ![r] = <<>>]
    /\ idx' = [idx EXCEPT ![r] = 1]
    /\ pc' = [pc EXCEPT ![r] = "recheck"]
    /\ calls' = [calls EXCEPT ![r].tx = @ + 1]
    /\ UNCHANGED <<pageVars, stock0, stock, sales, now, body, products, itemsPayload,
                   subtotalInCents, discountInCents, resp>>

\* { timeout: 30000 }: the transaction outlives its timeout (or the database
\* aborts it, as it does one side of a lock cycle) and is rolled back.
TxTimeout(r) ==
    /\ pc[r] \in TxPcs
    /\ Rollback(r, Thrown("TransactionTimeout",
                          Msg("Transaction already closed", 0, <<>>, 0), "P2028"))
    /\ UNCHANGED <<pageVars, stock0, stock, sales, now, body, products, itemsPayload,
                   subtotalInCents, discountInCents, calls>>

(***************************************************************************)
(* The request bodies the model draws from.                                *)
(***************************************************************************)
Cash == Str(<<"c", "a", "s", "h">>)
Line(p, q) == Obj(Str(p), Num(q), Undefined)
LineAt(p, q, price) == Obj(Str(p), Num(q), Num(price))
SaleRequest(receiptNumber, items, discount) ==
    [receiptNumber |-> receiptNumber, userId |-> Str(U1), paymentMethod |-> Cash,
     items |-> Arr(items), discount |-> discount]
ReceiptA == Str(<<"A">>)

\* Requests that pass validation, lookup and pricing when the stock allows.
GoodBodies ==
    {SaleRequest(Undefined, <<Line(P1, 2000)>>, Undefined),
     SaleRequest(Undefined, <<Line(P1, 1000)>>, Undefined),
     SaleRequest(ReceiptA, <<Line(P1, 1000), Line(P1, 2000)>>, Num(1000)),
     SaleRequest(Str(<<" ", "A", " ">>), <<LineAt(P2, 1000, 4995), Line(P1, 1500)>>, Num(19990))}

\* Requests that fail before the transaction, one for each way.
FailingBodies ==
    {[SaleRequest(Undefined, <<Line(P1, 1000)>>, Undefined) EXCEPT !.userId = Undefined],
     SaleRequest(Undefined, <<Line(P9, 1000), Line(P1, 1000)>>, Undefined),
     SaleRequest(Undefined, <<Line(P1, 3000)>>, Undefined),
     SaleRequest(Undefined, <<Line(P1, 1000), Line(P2, 1000)>>, Undefined),
     SaleRequest(Undefined, <<Line(P1, 1000)>>, Num(9995))}

ConcurrentBodies == GoodBodies \cup FailingBodies

\* Every field of the body in each of its shapes, for a request handled alone.
Bodies ==
    ConcurrentBodies
    \cup {[b EXCEPT !.userId = u] :
            b \in {SaleRequest(Undefined, <<Line(P1, 1000)>>, Undefined)},
            u \in {Null, Str(<<>>), Str(U9)}}
    \cup {[b EXCEPT !.paymentMethod = m] :
            b \in {SaleRequest(Undefined, <<Line(P1, 1000)>>, Undefined)},
            m \in {Undefined, Str(<<>>), Str(<<"C", "a", "r", "d">>), Str(<<"M", "O", "M", "O">>),
                   Str(<<"c", "a", "s", "h", " ">>), Str(<<"c", "o", "d">>), Num(1000),
                   Arr(<<Cash>>), Arr(<<Cash, Cash>>)}}
    \cup {[b EXCEPT !.items = i] :
            b \in {SaleRequest(Undefined, <<Line(P1, 1000)>>, Num(-1))},
            i \in {Undefined, Arr(<<>>), Str(<<"P", "1">>), Arr(<<Null>>),
                   Arr(<<Line(P1, 1000), Obj(Undefined, Num(1000), Undefined)>>),
                   Arr(<<Line(P1, 0)>>), Arr(<<LineAt(P1, 1000, -10)>>)}}
    \cup {SaleRequest(Undefined, <<Obj(Str(p), q, price)>>, Undefined) :
            p \in {P1, P2, P3, P9},
            q \in {Num(1000), Num(-1000), Num(6000), Num(125), Num(1004), NaN, Infinity},
            price \in {Undefined, Null, Num(0), Num(5000), Num(4), Infinity}}
    \cup {SaleRequest(rn, <<Line(P1, 2000), LineAt(P2, 500, 3330)>>, d) :
            rn \in {Undefined, Null, Num(7), Str(<<>>), Str(<<" ">>), Str(<<"A", " ", "B", " ">>)},
            d \in {Undefined, Null, Num(0), Num(4), Num(-1), Num(21640), Num(21645), NaN,
                   Infinity, Str(<<"x">>)}}
    \cup {SaleRequest(Undefined, <<Line(p1, 1000), Line(p2, 1000), Line(p3, 1000)>>, Undefined) :
            p1 \in {P1, P9}, p2 \in {P1, P3, <<"P", "8">>}, p3 \in {P9, P2}}
    \* a line equal to the stock of P1 (when 2.00), then one 0.004 above that of P2
    \cup {SaleRequest(Undefined, <<Line(P1, 2000), Line(P2, 1004)>>, Undefined)}

(***************************************************************************)
(* Specifications.  Spec: NumReqs requests handled concurrently.  SpecOne: *)
(* one request handled alone, its body drawn from every shape.             *)
(***************************************************************************)
Next ==
    \E r \in Reqs :
        \/ \E b \in ConcurrentBodies : Receive(r, b)
        \/ Lookup(r)
        \/ TxRecheck(r)
        \/ TxCreate(r)
        \/ TxUpdate(r)
        \/ TxCommit(r)
        \/ TxTimeout(r)

Spec == Init /\ [][Next]_vars

NextOne ==
    \/ \E b \in Bodies : Receive(1, b)
    \/ Lookup(1)
    \/ TxRecheck(1)
    \/ TxCreate(1)
    \/ TxUpdate(1)
    \/ TxCommit(1)
    \/ TxTimeout(1)

SpecOne == Init /\ [][NextOne]_vars

(***************************************************************************)
(* SpecCatalog: one request handled while the catalog flows, which are not *)
(* part of this route, remove Stock rows.                                  *)
(***************************************************************************)
\* A catalog flow deletes the Stock row of p; the DELETE waits for a
\* transaction that holds the row's lock.
RemoveStock(p) ==
    /\ p \in DOMAIN stock
    /\ ~\E r \in Reqs : Locked(r, p)
    /\ stock' = [q \in DOMAIN stock \ {p} |-> stock[q]]
    /\ UNCHANGED <<pageVars, stock0, sales, now, pc, body, products, itemsPayload, subtotalInCents,
                   discountInCents, idx, txSale, txWrites, resp, calls>>

CatalogBodies ==
    {SaleRequest(Undefined, <<Line(P1, 1000)>>, Undefined),
     SaleRequest(Undefined, <<LineAt(P2, 1000, 4995), Line(P1, 1500)>>, Undefined),
     SaleRequest(Undefined, <<Line(P3, 1000)>>, Undefined),
     SaleRequest(Undefined, <<Line(P1, 1000), Line(P3, 1000)>>, Undefined),
     SaleRequest(Undefined, <<Line(P1, 6000), Line(P3, 1000)>>, Undefined),
     SaleRequest(Undefined, <<Line(P9, 1000), Line(P3, 1000)>>, Undefined)}

NextCatalog ==
    \/ \E b \in CatalogBodies : Receive(1, b)
    \/ Lookup(1)
    \/ TxRecheck(1)
    \/ TxCreate(1)
    \/ TxUpdate(1)
    \/ TxCommit(1)
    \/ TxTimeout(1)
    \/ \E p \in ProductIds : RemoveStock(p)

SpecCatalog == Init /\ [][NextCatalog]_vars

(***************************************************************************)
(* The sales report page (app/sales/page.tsx): the date filter and the     *)
(* pagination of the transactions table.  A transaction counts here by its *)
(* date alone.  React commits a render and runs its effects before it      *)
(* handles the next event.                                                 *)
(***************************************************************************)
TRANSACTIONS_PER_PAGE == 6

\* How many transactions a day of a loaded data set may have.
PerDayCounts == {0, 1, 7, 36}

\* The filter callback of filteredTransactions, for a transaction dated d.
PassesFilter(d) ==
    /\ ~(startDate # NoDate /\ d < startDate)
    /\ ~(endDate # NoDate /\ d > endDate)

RECURSIVE CountUpTo(_, _)
\* The number of transactions dated 1..d, all of them or those passing the filter.
CountUpTo(d, filtered) ==
    IF d = 0 THEN 0
    ELSE CountUpTo(d - 1, filtered)
             + (IF ~filtered \/ PassesFilter(d) THEN transactions[d] ELSE 0)

\* transactions.length
transactionsLength == CountUpTo(MaxDay, FALSE)

\* filteredTransactions.length
filteredTransactionsLength ==
    IF startDate = NoDate /\ endDate = NoDate THEN transactionsLength
    ELSE CountUpTo(MaxDay, TRUE)

\* Math.ceil(length / TRANSACTIONS_PER_PAGE), or 0 for an empty list
totalPages ==
    IF filteredTransactionsLength = 0 THEN 0
    ELSE (filteredTransactionsLength + TRANSACTIONS_PER_PAGE - 1) \div TRANSACTIONS_PER_PAGE

\* Mutant of paginationNumbers: the window is not pulled back at the last pages.
paginationNumbersUnclamped(pages, page) ==
    IF pages <= 1 THEN <<1>>
    ELSE IF pages <= 5 THEN [i \in 1..pages |-> i]
    ELSE LET start == IF page - 2 < 1 THEN 1 ELSE page - 2
         IN  [i \in 1..5 |-> start + i - 1]

\* The page numbers shown for `pages` pages when `page` is the current one.
paginationNumbers(pages, page) ==
    IF pages <= 1 THEN <<1>>
    ELSE IF pages <= 5 THEN [i \in 1..pages |-> i]
    ELSE LET halfWindow == 5 \div 2
             start0 == page - halfWindow
             end0 == page + halfWindow
             start1 == IF start0 < 1 THEN 1 ELSE start0
             end1 == IF start0 < 1 THEN 5 ELSE end0
             start == IF end1 > pages THEN pages - 5 + 1 ELSE start1
             end == IF end1 > pages THEN pages ELSE end1
         IN  [i \in 1..(end - start + 1) |-> start + i - 1]

\* The dependency arrays of the two effects in the current render.
ResetDepsNow == <<startDate, endDate, transactionsLength>>
ClampDepsNow == <<totalPages, currentPage>>

\* No effect is waiting to run.
EffectsHaveRun == resetDeps = ResetDepsNow /\ clampDeps = ClampDepsNow

\* The effects of a committed render, in the order of the source: the reset
\* effect queues setCurrentPage(1), the clamp effect (reading the currentPage
\* of the same render) queues setCurrentPage(totalPages); the last queued value
\* is the new state.
RunEffects ==
    /\ ~EffectsHaveRun
    /\ LET reset == resetDeps # ResetDepsNow
           clamp == clampDeps # ClampDepsNow /\ totalPages > 0 /\ currentPage > totalPages
       IN  currentPage' = IF clamp THEN totalPages ELSE IF reset THEN 1 ELSE currentPage
    /\ resetDeps' = ResetDepsNow
    /\ clampDeps' = ClampDepsNow
    /\ UNCHANGED <<handlerVars, transactions, startDate, endDate>>

\* onChange of the start date input
ChangeStartDate(value) ==
    /\ EffectsHaveRun
    /\ startDate' = value
    /\ endDate' = IF endDate # NoDate /\ value # NoDate /\ value > endDate THEN value ELSE endDate
    /\ UNCHANGED <<handlerVars, transactions, currentPage, resetDeps, clampDeps>>

\* onChange of the end date input
ChangeEndDate(value) ==
    /\ EffectsHaveRun
    /\ endDate' = value
    /\ UNCHANGED <<handlerVars, transactions, startDate, currentPage, resetDeps, clampDeps>>

\* onClick of Clear, shown while a date is set
ClearDates ==
    /\ EffectsHaveRun
    /\ startDate # NoDate \/ endDate # NoDate
    /\ startDate' = NoDate
    /\ endDate' = NoDate
    /\ UNCHANGED <<handlerVars, transactions, currentPage, resetDeps, clampDeps>>

\* useQuery delivers the sales (again): any data set may arrive.
Refetch(loaded) ==
    /\ EffectsHaveRun
    /\ transactions' = loaded
    /\ UNCHANGED <<handlerVars, startDate, endDate, currentPage, resetDeps, clampDeps>>

\* onClick of Previous; the controls are rendered for a non-empty list only
ClickPrevious ==
    /\ EffectsHaveRun
    /\ filteredTransactionsLength > 0
    /\ currentPage # 1
    /\ currentPage' = IF currentPage - 1 > 1 THEN currentPage - 1 ELSE 1
    /\ UNCHANGED <<handlerVars, transactions, startDate, endDate, resetDeps, clampDeps>>

\* onClick of Next
ClickNext ==
    /\ EffectsHaveRun
    /\ filteredTransactionsLength > 0
    /\ currentPage # totalPages
    /\ currentPage' = IF currentPage + 1 < totalPages THEN currentPage + 1 ELSE totalPages
    /\ UNCHANGED <<handlerVars, transactions, startDate, endDate, resetDeps, clampDeps>>

\* onClick of the page-number button at position i
ClickPage(i) ==
    /\ EffectsHaveRun
    /\ filteredTransactionsLength > 0
    /\ i \in 1..Len(paginationNumbers(totalPages, currentPage))
    /\ currentPage' = paginationNumbers(totalPages, currentPage)[i]
    /\ UNCHANGED <<handlerVars, transactions, startDate, endDate, resetDeps, clampDeps>>

NextPage ==
    \/ RunEffects
    \/ \E value \in {NoDate} \cup Days : ChangeStartDate(value)
    \/ \E value \in {NoDate} \cup Days : ChangeEndDate(value)
    \/ ClearDates
    \/ \E loaded \in [Days -> PerDayCounts] : Refetch(loaded)
    \/ ClickPrevious
    \/ ClickNext
    \/ \E i \in 1..5 : ClickPage(i)

SpecPage == Init /\ [][NextPage]_vars

(***************************************************************************)
(* Properties.                                                             *)
(***************************************************************************)
RECURSIVE LineQty(_, _)
\* The quantity of product p over the lines.
LineQty(lines, p) ==
    IF lines = <<>> THEN 0
    ELSE (IF Head(lines).productId = p THEN Head(lines).quantity ELSE 0)
         + LineQty(Tail(lines), p)

RECURSIVE SoldQty(_, _)
\* The quantity of product p over the sales of the set S.
SoldQty(S, p) ==
    IF S = {} THEN 0
    ELSE LET s == CHOOSE x \in S : TRUE
         IN  LineQty(s.items, p) + SoldQty(S \ {s}, p)

RECURSIVE SumLineTotals(_)
\* The sum of the SaleItem totals, in cents.
SumLineTotals(lines) ==
    IF lines = <<>> THEN 0 ELSE Head(lines).total + SumLineTotals(Tail(lines))

ValidationMessages ==
    {"userId is required.", "paymentMethod is invalid.", "At least one sale item is required.",
     "discount must be a positive number.", "Item at position is invalid.",
     "Item is missing productId.", "Item quantity must be a positive number.",
     "Item price must be a positive number."}

NoPrismaCall(r) == calls[r] = [reads |-> 0, writes |-> 0, tx |-> 0]

\* An item the validator must reject.
MalformedItem(item) ==
    \/ item.t # "object"
    \/ item.productId.t # "string" \/ item.productId.v = <<>>
    \/ item.quantity.t # "number" \/ item.quantity.v <= 0
    \/ item.price.t \notin {"undefined", "null", "number"}
    \/ item.price.t = "number" /\ item.price.v < 0

\* A body the validator rejects: no attendant, a payment method whose string is
\* outside the enumeration, no list of items or an empty one, a malformed item,
\* a discount that is no number or is negative.
MalformedRequest(b) ==
    \/ Falsy(b.userId)
    \/ Falsy(b.paymentMethod) \/ toUpperCase(JsString(b.paymentMethod)) \notin PaymentMethod
    \/ b.items.t # "array" \/ b.items.v = <<>>
    \/ \E i \in 1..Len(b.items.v) : MalformedItem(b.items.v[i])
    \/ IsNaN(parsedDiscount(b))
    \/ parsedDiscount(b).t = "number" /\ parsedDiscount(b).v < 0

\* C1: every committed Stock quantity is >= 0.
C1_StockNeverNegative == \A p \in DOMAIN stock : stock[p] >= 0

StockConflict(r) == resp[r].cause \in {"InsufficientStock", "StockChanged"}

\* C2: when the NumReqs requests all ask for the same quantity q of P1, the
\* stock covered exactly NumReqs - 1 of them, and every request ended either
\* committed or with a stock conflict, then exactly NumReqs - 1 committed,
\* exactly one got the stock conflict and the stock is 0.
C2_ExactlyOneConflict ==
    \A q \in {100, 200} :  \* in hundredths
        (/\ \A r \in Reqs : /\ pc[r] = "done"
                            /\ body[r] = SaleRequest(Undefined, <<Line(P1, 10 * q)>>, Undefined)
                            /\ (resp[r].status = 201 \/ StockConflict(r))
         /\ stock0[P1] = (NumReqs - 1) * q)
        => /\ Cardinality({r \in Reqs : resp[r].status = 201}) = NumReqs - 1
           /\ Cardinality({r \in Reqs : StockConflict(r)}) = 1
           /\ stock[P1] = 0

\* C3: only the commit of a transaction changes the committed Sale and Stock
\* rows, and the request that commits is answered 201: every step of a
\* transaction that fails, the failing one included, leaves them as they were,
\* and no state holds a Sale of a request that failed or has not committed yet.
C3_RollbackLeavesNoTrace ==
    /\ [](\A s \in sales : pc[s.id] = "done" /\ resp[s.id].status = 201)
    /\ [][/\ (stock' # stock \/ sales' # sales)
             => \E r \in Reqs : /\ pc[r] = "commit" /\ resp'[r].status = 201
                                /\ \E s \in sales' : s.id = r /\ sales' = sales \cup {s}
          /\ \A r \in Reqs :
                (pc[r] \in TxPcs /\ resp'[r].status \notin {0, 201})
                   => stock' = stock /\ sales' = sales]_vars

\* A transaction was rolled back after it had inserted the sale and decremented
\* stock, and a sale of another request is committed.
C3_Witness ==
    /\ \E r \in Reqs : resp[r].cause = "TransactionTimeout" /\ calls[r].writes >= 2
    /\ sales # {}

\* C4: for every committed Sale, in cents: total = subtotal - discount,
\* subtotal = sum of the item totals, 0 <= discount <= subtotal, total >= 0.
C4_SaleTotals ==
    \A s \in sales :
        /\ s.totalAmount = s.subtotal - s.discount
        /\ s.subtotal = SumLineTotals(s.items)
        /\ 0 <= s.discount /\ s.discount <= s.subtotal
        /\ s.totalAmount >= 0

\* A committed sale of two lines (one of a fractional quantity) with a discount.
C4_Witness ==
    \E s \in sales :
        /\ Len(s.items) = 2 /\ s.items[2].quantity = 50 /\ s.items[2].total = 167
        /\ s.discount > 0 /\ s.discount < s.subtotal

\* C5: a commit takes from every Stock row the quantity the committed sale sold
\* of that product (its SaleItem rows), and Stock changes in no other step and
\* by no other amount.
C5_CommitDecrementsStock ==
    [][/\ DOMAIN stock' = DOMAIN stock
       /\ \A s \in sales' \ sales :
              \A p \in DOMAIN stock : stock'[p] = stock[p] - LineQty(s.items, p)
       /\ (stock' # stock => Cardinality(sales' \ sales) = 1)]_vars

\* C6: a request answered with a validation message got 400 before the handler
\* issued any call to the persistence layer, and a malformed body is answered
\* so.
C6_ValidationBeforePersistence ==
    \A r \in Reqs :
        /\ resp[r].error.text \in ValidationMessages
              => resp[r].status = 400 /\ NoPrismaCall(r)
        /\ (pc[r] # "idle" /\ MalformedRequest(body[r]))
              => pc[r] = "done" /\ resp[r].error.text \in ValidationMessages

\* A request rejected for the quantity of an item.
C6_Witness ==
    \E r \in Reqs :
        /\ resp[r].error.text = "Item quantity must be a positive number."
        /\ NoPrismaCall(r)

PreTransactionMessages ==
    ValidationMessages
    \cup {"Products not found: ", "Insufficient stock for . Available: .",
          "Product has no stock record.", "Discount cannot exceed subtotal."}

PreTransactionFailure(response) ==
    response.error.text \in PreTransactionMessages \/ response.cause = "InvalidPrice"

\* What a request that opened a transaction went through: its body is well
\* formed, every product exists, every line fits the stock fetched and has a
\* price > 0, and the discount does not exceed the subtotal.
PassedEveryCheck(r) ==
    /\ ~MalformedRequest(body[r])
    /\ \A i \in 1..Len(body[r].items.v) : body[r].items.v[i].productId.v \in ProductIds
    /\ \A i \in 1..Len(products[r]) : products[r][i].stock.t # "null"
    /\ \A i \in 1..Len(itemsPayload[r]) :
          /\ \E j \in 1..Len(products[r]) :
                /\ products[r][j].id = itemsPayload[r][i].productId
                /\ itemsPayload[r][i].quantity <= 10 * products[r][j].stock.quantity
          /\ itemsPayload[r][i].price > 0
    /\ ~JsGreater(toCents(parsedDiscount(body[r])),
                  Num(SumLineTotals([i \in 1..Len(itemsPayload[r]) |->
                                        [total |-> ToDecimal(itemsPayload[r][i].total)]])))

C8_StockFailureIs400 ==
    \A r \in Reqs : StockConflict(r) => resp[r].status = 400

\* C9: a line whose resolved price is not > 0 is answered 400 naming the
\* product, and nothing is committed.
C9_InvalidPriceIs400 ==
    \A r \in Reqs :
        resp[r].cause = "InvalidPrice"
           => /\ resp[r].status = 400 /\ resp[r].error.ids # <<>>
              /\ ~\E s \in sales : s.id = r

RequestedIds(b) == {b.items.v[i].productId.v : i \in 1..Len(b.items.v)}

\* C10: a validated request naming an id with no Product is answered 404, the
\* reason lists each such id once and no other, no sale is created and no
\* stock changes; a request whose ids all exist is never answered 404.
C10_MissingProducts ==
    \A r \in Reqs :
        (pc[r] \notin {"idle", "lookup"} /\ ~MalformedRequest(body[r]))
           => LET absent == RequestedIds(body[r]) \ ProductIds
                  listed == resp[r].error.ids
              IN  /\ absent # {}
                        => /\ pc[r] = "done" /\ resp[r].status = 404
                           /\ {listed[i] : i \in 1..Len(listed)} = absent
                           /\ Len(listed) = Cardinality(absent)
                           /\ calls[r].tx = 0 /\ calls[r].writes = 0
                           /\ sales = {} /\ stock = stock0
                  /\ absent = {} => resp[r].status # 404

\* Three lines naming two ids without a Product, one of them twice, answered
\* 404 listing the two.
C10_Witness ==
    \E r \in Reqs :
        /\ resp[r].status = 404
        /\ Len(resp[r].error.ids) = 2
        /\ Len(body[r].items.v) = 3
        /\ body[r].items.v[1].productId = body[r].items.v[3].productId

\* The lines of request r as the validator hands them on, and the product row
\* findMany returned for line i.
LinesOf(r) == sanitizedItems(body[r])
FetchedFor(r, i) == productMapGet(products[r], LinesOf(r)[i].productId)

\* Line i asks for more than the Stock quantity fetched (in thousandths).
Oversells(r, i) ==
    /\ FetchedFor(r, i).stock.t # "null"
    /\ LinesOf(r)[i].quantity > 10 * FetchedFor(r, i).stock.quantity

\* Line i fails the pre-check for another reason: no Stock row, or a resolved
\* price that is not > 0.
FailsOtherwise(r, i) ==
    \/ FetchedFor(r, i).stock.t = "null"
    \/ /\ ~Oversells(r, i)
       /\ LET price == unitPrice(LinesOf(r)[i], FetchedFor(r, i))
          IN  price.t # "number" \/ price.v <= 0

\* C11: a validated request whose products all exist is answered with the
\* insufficient-stock error exactly when some line asks for strictly more than
\* the stock fetched and no earlier line fails for another reason; the answer
\* is 400, names the product of the first such line and the quantity
\* available, and no transaction was opened.  A quantity equal to the stock
\* fetched is not rejected.
C11_AdvisoryStockCheck ==
    \A r \in Reqs :
        (/\ pc[r] \notin {"idle", "lookup"}
         /\ ~MalformedRequest(body[r])
         /\ RequestedIds(body[r]) \subseteq ProductIds)
           => LET over == {i \in 1..Len(LinesOf(r)) : Oversells(r, i)}
                  first == CHOOSE i \in over : \A j \in over : i <= j
              IN  /\ resp[r].cause = "InsufficientStock"
                        <=> /\ over # {}
                            /\ \A j \in 1..Len(LinesOf(r)) : FailsOtherwise(r, j) => j > first
                  /\ resp[r].cause = "InsufficientStock"
                        => /\ resp[r].status = 400
                           /\ resp[r].error
                                 = Msg("Insufficient stock for . Available: .", 0,
                                       <<ProductRow(LinesOf(r)[first].productId).name>>,
                                       10 * FetchedFor(r, first).stock.quantity)
                           /\ calls[r].tx = 0 /\ calls[r].writes = 0

\* A first line equal to the stock fetched (2.00 of P1) passed the pre-check and
\* the second, 1.004 against 1.00 of P2, was rejected with what is available.
C11_Witness ==
    \E r \in Reqs :
        /\ resp[r].cause = "InsufficientStock" /\ resp[r].status = 400
        /\ Len(LinesOf(r)) = 2
        /\ LinesOf(r)[1].quantity = 10 * FetchedFor(r, 1).stock.quantity
        /\ LinesOf(r)[2].quantity = 1004
        /\ resp[r].error.qty = 1000 /\ resp[r].error.ids = <<ProductRow(P2).name>>

\* The ways a transaction that was opened can fail.
TxFailureCauses ==
    {"StockChanged", "DuplicateReceiptNumber", "ForeignKeyViolation", "TransactionTimeout"}

\* Request r got through validation, the product lookup and the pricing of
\* every line, so that the discount check is what comes next.
ReachedDiscountCheck(r) ==
    /\ pc[r] \notin {"idle", "lookup"}
    /\ ~MalformedRequest(body[r])
    /\ RequestedIds(body[r]) \subseteq ProductIds
    /\ \A i \in 1..Len(LinesOf(r)) : ~Oversells(r, i) /\ ~FailsOtherwise(r, i)

RejectionItemsFirst(b) ==
    IF Falsy(b.userId)
    THEN Msg("userId is required.", 0, <<>>, 0)
    ELSE IF Falsy(b.paymentMethod) \/ normalizedPaymentMethod(b) \notin PaymentMethod
    THEN Msg("paymentMethod is invalid.", 0, <<>>, 0)
    ELSE IF b.items.t # "array" \/ b.items.v = <<>>
    THEN Msg("At least one sale item is required.", 0, <<>>, 0)
    ELSE LET bad == {i \in 1..Len(b.items.v) : ItemError(b.items.v[i], i - 1) # NoMsg}
         IN  IF bad # {}
             THEN ItemError(b.items.v[CHOOSE i \in bad : \A j \in bad : i <= j],
                            (CHOOSE i \in bad : \A j \in bad : i <= j) - 1)
             ELSE IF parsedDiscount(b).t # "number" \/ parsedDiscount(b).v < 0
             THEN Msg("discount must be a positive number.", 0, <<>>, 0)
             ELSE NoMsg

\* C13: a body that fails a check is answered 400 with the reason of the first
\* check it fails in the order attendant, payment method, items, each item in
\* sequence (1-indexed), discount; a body with an invalid item and an invalid
\* discount is answered for the item.  (Bodies with an infinite discount are
\* left to C14.)
C13_ValidationOrder ==
    \A r \in Reqs :
        (/\ pc[r] # "idle" /\ RejectionItemsFirst(body[r]) # NoMsg
         /\ parsedDiscount(body[r]).t # "Infinity")
           => /\ pc[r] = "done" /\ resp[r].status = 400
              /\ resp[r].error = RejectionItemsFirst(body[r])

\* Every field of the body but the discount is well formed.
WellFormedButDiscount(b) == ~MalformedRequest([b EXCEPT !.discount = Undefined])

\* C14: a supplied discount that is NaN, negative or infinite is answered 400
\* "discount must be a positive number." with no call to the persistence layer;
\* a sale committed for a request without discount has discount 0.
C14_InvalidDiscountRejected ==
    \A r \in Reqs :
        (pc[r] # "idle" /\ WellFormedButDiscount(body[r]))
           => /\ (/\ body[r].discount.t # "undefined"
                  /\ (parsedDiscount(body[r]).t # "number" \/ parsedDiscount(body[r]).v < 0))
                    => /\ pc[r] = "done" /\ resp[r].status = 400
                       /\ resp[r].error = Msg("discount must be a positive number.", 0, <<>>, 0)
                       /\ NoPrismaCall(r)
              /\ body[r].discount.t = "undefined"
                    => \A s \in sales : s.id = r => s.discount = 0

\* The payment method is a string that equals, ignoring letter case, a member
\* of the enumeration.
IsPaymentMethod(x) == x.t = "string" /\ toUpperCase(x.v) \in PaymentMethod

\* C15: a request with an attendant gets past the payment-method check exactly
\* when its payment method is a string equal, ignoring case, to a member of the
\* enumeration, and every committed Sale stores that member in its canonical
\* spelling.
C15_PaymentMethodEnumeration ==
    /\ \A r \in Reqs :
          (pc[r] # "idle" /\ ~Falsy(body[r].userId))
             => (resp[r].error.text # "paymentMethod is invalid."
                    <=> IsPaymentMethod(body[r].paymentMethod))
    /\ \A s \in sales :
          /\ s.paymentMethod \in PaymentMethod
          /\ IsPaymentMethod(body[s.id].paymentMethod)
          /\ s.paymentMethod = toUpperCase(body[s.id].paymentMethod.v)

\* C16: every line of a committed sale is charged, in cents, the price override
\* of the request's item when the item carries a price, and the catalog price
\* of the product only when it carries none.
C16_PriceOverride ==
    \A s \in sales :
        \A i \in 1..Len(s.items) :
            LET item == body[s.id].items.v[i]
            IN  /\ s.items[i].productId = item.productId.v
                /\ item.price.t # "undefined"
                      => /\ item.price.t = "number" /\ item.price.v >= 0
                         /\ s.items[i].price = ToDecimal(item.price.v)
                /\ item.price.t = "undefined"
                      => s.items[i].price = ProductRow(item.productId.v).price

\* A committed line of P1 (catalog price 9.99) charged the override 5.00.
C16_Witness ==
    \E s \in sales :
        /\ body[s.id].items.v[1].productId.v = P1
        /\ body[s.id].items.v[1].price = Num(5000)
        /\ ProductRow(P1).price = 999
        /\ s.items[1].price = 500

\* n spaces.
Spaces(n) == [i \in 1..n |-> " "]

\* t is s without its surrounding whitespace, and is not empty.
IsTrimOf(t, s) ==
    /\ t # <<>> /\ t[1] # " " /\ t[Len(t)] # " "
    /\ \E i, j \in 0..Len(s) : s = Spaces(i) \o t \o Spaces(j)

\* s holds something other than whitespace.
NonBlank(s) == \E i \in 1..Len(s) : s[i] # " "

\* C17: the receipt number of a committed Sale is the receipt number of the
\* request without its surrounding whitespace when that is a string holding
\* more than whitespace, and otherwise (omitted, null, not a string, empty or
\* blank) the value the system generates, "SAL-" and the clock reading.
C17_ReceiptNumber ==
    \A s \in sales :
        LET rn == body[s.id].receiptNumber
        IN  IF rn.t = "string" /\ NonBlank(rn.v)
            THEN IsTrimOf(s.receiptNumber, rn.v)
            ELSE s.receiptNumber = <<"S", "A", "L", "-">> \o NatToStr(s.createdAt)

\* A sale committed under "A B" for the supplied receipt number "A B ".
C17_Witness ==
    \E s \in sales :
        /\ body[s.id].receiptNumber = Str(<<"A", " ", "B", " ">>)
        /\ s.receiptNumber = <<"A", " ", "B">>

\* C18: a request that omits the receipt number never fails for a duplicate
\* receipt number, and the sales committed for such requests carry pairwise
\* different receipt numbers.
C18_GeneratedReceiptsUnique ==
    /\ \A r \in Reqs :
          body[r].receiptNumber.t = "undefined" => resp[r].cause # "DuplicateReceiptNumber"
    /\ \A s1, s2 \in sales :
          (/\ body[s1.id].receiptNumber.t = "undefined"
           /\ body[s2.id].receiptNumber.t = "undefined"
           /\ s1.id # s2.id) => s1.receiptNumber # s2.receiptNumber

\* C19: the receipt numbers of the committed Sales are pairwise distinct; a
\* request that failed for a duplicate receipt number is answered 500 "Receipt
\* number must be unique." and has no Sale; and when a request whose trimmed
\* receipt number is that of a committed Sale leaves the insert, it ends with
\* that failure (or the timeout) and Stock and Sale rows stay as they were.
C19_ReceiptNumberUnique ==
    /\ [](\A s1, s2 \in sales : s1.receiptNumber = s2.receiptNumber => s1 = s2)
    /\ [](\A r \in Reqs :
            resp[r].cause = "DuplicateReceiptNumber"
               => /\ pc[r] = "done" /\ resp[r].status = 500
                  /\ resp[r].error = Msg("Receipt number must be unique.", 0, <<>>, 0)
                  /\ ~\E s \in sales : s.id = r)
    /\ [][\A r \in Reqs :
            (/\ pc[r] = "create" /\ pc'[r] # "create"
             /\ body[r].receiptNumber.t = "string" /\ NonBlank(body[r].receiptNumber.v)
             /\ \E s \in sales : IsTrimOf(s.receiptNumber, body[r].receiptNumber.v))
               => /\ pc'[r] = "done"
                  /\ resp'[r].cause \in {"DuplicateReceiptNumber", "TransactionTimeout"}
                  /\ resp'[r].status = 500
                  /\ stock' = stock /\ sales' = sales]_vars

\* A request sent with the receipt number "A" failed as a duplicate of the Sale
\* committed for a request sent with " A ".
C19_Witness ==
    \E r \in Reqs, s \in sales :
        /\ resp[r].cause = "DuplicateReceiptNumber"
        /\ resp[r].error.text = "Receipt number must be unique."
        /\ body[r].receiptNumber = Str(<<"A">>)
        /\ body[s.id].receiptNumber = Str(<<" ", "A", " ">>)
        /\ s.receiptNumber = <<"A">>
        /\ stock[P1] = stock0[P1] - LineQty(s.items, P1)

\* C20: a request opens at most one transaction; a request whose transaction
\* failed has ended with an error response and holds nothing of it; a step that
\* closes a transaction without committing ends the request with the failure;
\* and a request that has ended issues no further call and keeps its response.
C20_NoRetry ==
    /\ [](\A r \in Reqs :
            /\ calls[r].tx <= 1
            /\ resp[r].cause \in TxFailureCauses
                  => /\ pc[r] = "done" /\ resp[r].status \in {400, 500}
                     /\ calls[r].tx = 1
                     /\ txSale[r] = <<>> /\ txWrites[r] = <<>>)
    /\ [][\A r \in Reqs :
            /\ (pc[r] \in TxPcs /\ pc'[r] \notin TxPcs /\ resp'[r].status # 201)
                  => pc'[r] = "done" /\ resp'[r].cause \in TxFailureCauses
            /\ pc[r] = "done"
                  => pc'[r] = "done" /\ calls'[r] = calls[r] /\ resp'[r] = resp[r]]_vars

\* A request ended "stock changed" after its single transaction, without a
\* write, while the sale of another request is committed.
C20_Witness ==
    \E r \in Reqs :
        /\ resp[r].cause = "StockChanged" /\ pc[r] = "done"
        /\ calls[r].tx = 1 /\ calls[r].writes = 0
        /\ \E s \in sales : s.id # r

\* C21: a request has a response exactly when its handler has ended, and never
\* a second one; the response is 201 with the formatted sale exactly when the
\* request's transaction committed (its Sale is among the committed ones), and
\* otherwise 400, 404 or 500 with a message and without a sale.
C21_ExactlyOneResponse ==
    /\ [](\A r \in Reqs :
            /\ pc[r] = "done" <=> resp[r] # NoResponse
            /\ pc[r] = "done" => resp[r].status \in {201, 400, 404, 500}
            /\ resp[r].status = 201 <=> \E s \in sales : s.id = r
            /\ resp[r].status = 201
                  => /\ resp[r].error = NoMsg
                     /\ \E s \in sales : s.id = r /\ resp[r].sale = <<formatSale(s)>>
            /\ resp[r].status \in {400, 404, 500}
                  => resp[r].error.text # "" /\ resp[r].sale = <<>>)
    /\ [][\A r \in Reqs : resp[r] # NoResponse => resp'[r] = resp[r]]_vars

\* One request answered 201 with its sale, the other answered 500 after its
\* transaction failed.
C21_Witness ==
    \E r1, r2 \in Reqs :
        /\ resp[r1].status = 201 /\ resp[r1].sale # <<>>
        /\ resp[r2].status = 500 /\ resp[r2].cause \in TxFailureCauses

\* The SaleItem table: the items of the committed Sales, each with the Sale it
\* belongs to and its position.
SaleItemRows ==
    UNION {{[saleId |-> s.id, line |-> i, item |-> s.items[i]] : i \in 1..Len(s.items)} :
           s \in sales}

\* C22: every committed Sale has at least one SaleItem and every SaleItem row
\* belongs to exactly one committed Sale; a step that changes the Sale rows adds
\* one Sale, with one SaleItem for each line of its request, and leaves every
\* Sale and SaleItem that existed as it was.
C22_SaleOwnsItems ==
    /\ [](/\ \A s \in sales : Len(s.items) >= 1
          /\ \A row \in SaleItemRows :
                Cardinality({s \in sales : s.id = row.saleId}) = 1)
    /\ [][sales' # sales
            => /\ sales \subseteq sales'
               /\ \E r \in Reqs :
                     /\ pc[r] = "commit" /\ ~\E s \in sales : s.id = r
                     /\ \E s \in sales' :
                           /\ s.id = r /\ sales' = sales \cup {s}
                           /\ Len(s.items) = Len(body[r].items.v)
                           /\ Len(s.items) >= 1]_vars

\* Two committed Sales, one of them with two SaleItems.
C22_Witness ==
    /\ Cardinality(sales) = 2
    /\ \E s \in sales : Len(s.items) = 2
    /\ Cardinality(SaleItemRows) = 3

\* The attendant of a sale as the fallback chain renders it: the display name,
\* else the username, else "Walk-in customer".
AttendantName(userId) ==
    LET a == {u \in User : u.id = userId}
        u == CHOOSE x \in a : TRUE
    IN  IF a # {} /\ u.fullName # <<>> THEN Str(u.fullName)
        ELSE IF a # {} /\ u.username # <<>> THEN Str(u.username)
        ELSE Str(<<"W", "a", "l", "k", "-", "i", "n", " ",
                   "c", "u", "s", "t", "o", "m", "e", "r">>)

\* C23: the formatted sale of a 201 response carries as its attendant the name
\* the fallback chain gives, and each of its items carries the name and sku of
\* its product, or null.
C23_FormattedAttendant ==
    \A r \in Reqs :
        resp[r].status = 201
           => LET f == resp[r].sale[1]
              IN  /\ f.attendant = AttendantName(f.userId)
                  /\ \A i \in 1..Len(f.items) :
                        \/ f.items[i].product = Null
                        \/ /\ f.items[i].product.name = ProductRow(f.items[i].productId).name
                           /\ f.items[i].product.sku = ProductRow(f.items[i].productId).sku

\* The cent values the handler computed for request r once its lines are
\* priced: each line's unit price and total, the subtotal, the discount, the
\* net total.
CentsProduced(r) ==
    {toCents(unitPrice(LinesOf(r)[i], FetchedFor(r, i))).v : i \in 1..Len(LinesOf(r))}
    \cup {lineTotalInCents(toCents(unitPrice(LinesOf(r)[i], FetchedFor(r, i))).v,
                           LinesOf(r)[i].quantity) : i \in 1..Len(LinesOf(r))}
    \cup {subtotalInCents[r], discountInCents[r], subtotalInCents[r] - discountInCents[r]}

C25_LineTotal ==
    \A s \in sales :
        \A i \in 1..Len(s.items) :
            /\ s.items[i].total = (s.items[i].price * s.items[i].quantity + 50) \div 100
            /\ s.items[i].price
                  = ToDecimal(unitPrice(LinesOf(s.id)[i], FetchedFor(s.id, i)).v)

\* C26: a request handled alone is committed only if, for every product, the
\* quantities of its lines naming that product add up to no more than the
\* stock of the product when it commits; and the stock is never negative.
C26_SumOfLinesFitsStock ==
    /\ \A s \in sales :
          \A p \in DOMAIN stock0 : LineQty(LinesOf(s.id), p) <= 10 * stock0[p]
    /\ \A p \in DOMAIN stock : stock[p] >= 0

\* C27: a request failed with StockChanged only if it opened its transaction,
\* every line fitted the stock the pre-check read, and some line does not fit
\* the committed stock (which only commits of other requests lowered since);
\* a request failed with InsufficientStock only if it opened no transaction and
\* some line did not fit the stock the pre-check read; and the two are answered
\* differently: 400 with the insufficient-stock message for InsufficientStock,
\* another status and another message for StockChanged.
C27_TwoStockErrors ==
    \A r \in Reqs :
        /\ resp[r].cause = "StockChanged"
              => /\ calls[r].tx = 1
                 /\ \A i \in 1..Len(LinesOf(r)) : ~Oversells(r, i)
                 /\ \E i \in 1..Len(LinesOf(r)) :
                       /\ LinesOf(r)[i].quantity > 10 * stock[LinesOf(r)[i].productId]
                       /\ stock[LinesOf(r)[i].productId] < FetchedFor(r, i).stock.quantity
                 /\ resp[r].status # 400
                 /\ resp[r].error.text # "Insufficient stock for . Available: ."
        /\ resp[r].cause = "InsufficientStock"
              => /\ calls[r].tx = 0
                 /\ \E i \in 1..Len(LinesOf(r)) : Oversells(r, i)
                 /\ resp[r].status = 400
                 /\ resp[r].error.text = "Insufficient stock for . Available: ."

\* A request whose lines fitted the stock it fetched failed with StockChanged
\* after the commit of another request.
C27_Witness ==
    \E r \in Reqs :
        /\ resp[r].cause = "StockChanged"
        /\ \A i \in 1..Len(LinesOf(r)) : ~Oversells(r, i)
        /\ \E s \in sales : s.id # r
        /\ stock # stock0

\* What the caller receives of a failure: the status and the error text.
ReportedKind(response) == <<response.status, response.error.text>>

\* The errors the transaction of POST is rolled back with.
TxErrors ==
    {Thrown("StockChanged",
            Msg("Stock levels changed. Please refresh and try again.", 0, <<>>, 0), ""),
     Thrown("DuplicateReceiptNumber", Msg("Unique constraint failed", 0, <<>>, 0), "P2002"),
     Thrown("ForeignKeyViolation", Msg("Foreign key constraint failed", 0, <<>>, 0), "P2003"),
     Thrown("TransactionTimeout", Msg("Transaction already closed", 0, <<>>, 0), "P2028")}

\* C28: the response to a request that failed inside the transaction tells its
\* cause (stock changed, duplicate receipt number, timeout, another persistence
\* failure): the catch block reports no error of another cause in the same way.
C28_ReportedKindPerCause ==
    \A r \in Reqs :
        pc[r] = "done" /\ resp[r].cause \in TxFailureCauses
            => /\ \E e \in TxErrors : e.kind = resp[r].cause /\ resp[r] = Catch(e)
               /\ \A e \in TxErrors :
                     e.kind # resp[r].cause
                         => ReportedKind(Catch(e)) # ReportedKind(resp[r])

\* Line i of request r names an existing product for which findMany returned
\* no Stock row, and the callback of sanitizedItems.map gets as far as line i.
NoStockAtPreCheck(r, i) ==
    /\ \A j \in 1..Len(LinesOf(r)) : LinesOf(r)[j].productId \in ProductIds
    /\ FetchedFor(r, i).stock.t = "null"
    /\ \A j \in 1..(i - 1) : LineError(LinesOf(r)[j], FetchedFor(r, j)).kind = ""

\* Request r takes a step.
Steps(r) == pc'[r] # pc[r] \/ idx'[r] # idx[r] \/ calls'[r] # calls[r]

\* C29: a request naming an existing product without a Stock record is never
\* committed.  When the pre-check finds no record for a line it reaches, the
\* answer is 400 with the no-stock-record message and no transaction opens;
\* when the re-read inside the transaction finds no record, the transaction
\* ends there with a failure; a sale is committed only while the Stock row of
\* each of its lines exists; and a request that fails leaves the Sale and
\* Stock tables as they were, no Stock row ever being created.
C29_NoStockRecord ==
    /\ [](\A r \in Reqs :
             pc[r] \notin {"idle", "lookup"} /\ ~MalformedRequest(body[r])
                 => \A i \in 1..Len(LinesOf(r)) :
                       /\ LinesOf(r)[i].productId \in ProductIds
                               /\ FetchedFor(r, i).stock.t = "null"
                           => /\ pc[r] = "done" /\ resp[r].status # 201
                              /\ calls[r].tx = 0
                              /\ ~\E s \in sales : s.id = r
                       /\ NoStockAtPreCheck(r, i)
                           => /\ resp[r].status = 400
                              /\ resp[r].error.text = "Product has no stock record."
                              /\ calls[r].tx = 0)
    /\ [][\A r \in Reqs :
             /\ (/\ pc[r] = "recheck"
                  /\ itemsPayload[r][idx[r]].productId \notin DOMAIN stock
                  /\ Steps(r))
                    => /\ pc'[r] = "done" /\ resp'[r].status \notin {0, 201}
                       /\ txSale'[r] = <<>> /\ txWrites'[r] = <<>>
             /\ (pc[r] # "done" /\ pc'[r] = "done" /\ resp'[r].status # 201)
                    => sales' = sales /\ stock' = stock
             /\ (\E s \in sales' \ sales : s.id = r)
                    => /\ \A i \in 1..Len(itemsPayload[r]) :
                             itemsPayload[r][i].productId \in DOMAIN stock
                       /\ DOMAIN stock' = DOMAIN stock
             /\ DOMAIN stock' \subseteq DOMAIN stock]_vars

\* A request whose lines had their Stock rows at the pre-check was failed by the
\* re-check after the row of one of its products was removed.
C29_Witness ==
    \E r \in Reqs :
        /\ pc[r] = "done" /\ resp[r].cause = "StockChanged" /\ calls[r].tx = 1
        /\ \E i \in 1..Len(LinesOf(r)) :
              /\ FetchedFor(r, i).stock.t # "null"
              /\ LinesOf(r)[i].productId \notin DOMAIN stock
        /\ sales = {}
        /\ \A p \in DOMAIN stock : stock[p] = stock0[p]

\* C30: once the effects of the sales report page have run and at least one
\* transaction passes the filter, 1 <= currentPage <= totalPages where
\* totalPages is the filtered count divided by 6 and rounded up, and the page
\* numbers shown are at most 5 consecutive integers within 1..totalPages, the
\* current page among them.
C30_PaginationInRange ==
    EffectsHaveRun /\ filteredTransactionsLength > 0
        => LET shown == paginationNumbers(totalPages, currentPage)
           IN  /\ 1 <= currentPage /\ currentPage <= totalPages
               /\ TRANSACTIONS_PER_PAGE * totalPages >= filteredTransactionsLength
               /\ TRANSACTIONS_PER_PAGE * (totalPages - 1) < filteredTransactionsLength
               /\ Len(shown) >= 1 /\ Len(shown) <= 5
               /\ \A i \in 1..(Len(shown) - 1) : shown[i + 1] = shown[i] + 1
               /\ \A i \in 1..Len(shown) : shown[i] \in 1..totalPages
               /\ \E i \in 1..Len(shown) : shown[i] = currentPage

\* With a date filter set and more than five pages, the last page is the
\* current one after the effects have run.
C30_Witness ==
    /\ EffectsHaveRun
    /\ startDate # NoDate
    /\ totalPages > 5
    /\ currentPage = totalPages
    /\ transactionsLength > filteredTransactionsLength

====
